---- MODULE Spec2Model ----
(***************************************************************************)
(* Model of the account-scoped task store of src/main.rs (struct TodoApp): *)
(* the in-memory maps `tasks` and `users`, the session `current_user`, the *)
(* counter `next_task_id`, and the two JSON files the store mirrors them   *)
(* to.  One action per TodoApp method; a process start (main, lines        *)
(* 205-207) is the action `restart`.  Spec lets the methods be called in   *)
(* any order; MenuSpec calls them as the menu loop of main does.           *)
(***************************************************************************)
EXTENDS Integers, Sequences, FiniteSets, TLC

(* ------------------------------ bounds -------------------------------- *)

\* add_task is explored while the counter is at most MaxId (or within the
\* last two values a u32 can hold).
MaxId == 2

\* add_task is explored while the store then holds at most MaxTasks tasks.
MaxTasks == 1

\* At most this many fs::write calls fail in one behaviour.
MaxFailures == 1

\* Inputs typed at the prompts.
Usernames == {"alice", "Alice"}
Passwords == {"pw1", "pw2"}
\* The username/password pairs typed at the Register prompts.
Registrations == { <<"alice", "pw1">>, <<"alice", "pw2">>, <<"Alice", "pw2">> }
TaskTexts == { <<"Buy milk", "2%">>, <<"Walk dog", "">> }

\* The value Utc::now() returns: half a second past a whole second.
Times == { [secs |-> 100, nanos |-> 500000000] }

\* Outcomes of fs::write: written; the file could not be opened (contents
\* kept); opened and truncated but the write failed (contents unparseable).
WriteOutcomes == {"ok", "open_failed", "write_failed"}

\* The keys RandomState draws for the hasher of a HashMap when the map is
\* built; which key is drawn decides the order the map is iterated in.
Seeds == {0, 1}

(* ------------------------- program constants -------------------------- *)

\* A u32 (Task.id, TodoApp.next_task_id) is the pair <<hi, lo>> of its two
\* 16-bit halves, value hi * 65536 + lo: TLC's integers stop short of 2^32.
HalfMax == 65535

U32(n) == <<0, n>>

\* u32::MAX = 4294967295.
U32Max == <<HalfMax, HalfMax>>

\* u32::MAX - 1.
U32NearMax == <<HalfMax, HalfMax - 1>>

\* a < b on u32.
Lt(a, b) == a[1] < b[1] \/ (a[1] = b[1] /\ a[2] < b[2])

Le(a, b) == a = b \/ Lt(a, b)

\* a + 1 on u32 for a < u32::MAX.
Succ(a) == IF a[2] < HalfMax THEN <<a[1], a[2] + 1>> ELSE <<a[1] + 1, 0>>

\* Option<String>: None is the empty sequence, Some(u) is <<u>>.
None == << >>
Some(u) == <<u>>

\* Result<(), &'static str>: Ok(()) and the error messages of the source.
Ok == "Ok"
ErrUsernameExists == "Username already exists"
ErrInvalidCredentials == "Invalid username or password"
ErrNotLoggedIn == "Not logged in"
ErrTaskNotFound == "Task not found"
ErrNotAuthorizedModify == "Not authorized to modify this task"
ErrNotAuthorizedDelete == "Not authorized to delete this task"
ErrSaveTasks == "Failed to save tasks"
ErrSaveUsers == "Failed to save users"
\* The process died inside the call (arithmetic overflow panic).
Panicked == "panicked"
\* The io::Error main returns when a load fails.
ErrLoad == "load failed"

VARIABLES
    tasks,            \* TodoApp.tasks: HashMap<u32, Task>
    users,            \* TodoApp.users: HashMap<String, User>
    current_user,     \* TodoApp.current_user: Option<String>
    next_task_id,     \* TodoApp.next_task_id: u32
    tasks_file,       \* contents of tasks.json
    users_file,       \* contents of users.json
    pc,               \* "running", or why the process is gone
    overflow_checks,  \* build profile: TRUE panics on overflow, FALSE wraps
    last,             \* the last call and what it returned
    issued,           \* the add_task calls of this process that created a
                      \* task, in call order: the id, and whether Ok
    ever_assigned,    \* ids of all tasks ever created successfully
    loaded,           \* until this process first creates a task: the
                      \* largest task id it loaded at its start
    creator,          \* who was logged in when each task was created
    failures,         \* how many writes have failed so far
    hash_seed         \* the keys of the hasher of this process's task map

vars == <<tasks, users, current_user, next_task_id, tasks_file, users_file,
          pc, overflow_checks, last, issued, ever_assigned, loaded, creator,
          failures, hash_seed>>

(* ------------------------------ helpers ------------------------------- *)

EmptyMap == << >>

\* HashMap::insert: add or overwrite the entry for key k.
Insert(m, k, v) == [x \in DOMAIN m \cup {k} |-> IF x = k THEN v ELSE m[x]]

\* HashMap::remove.
Remove(m, k) == [x \in DOMAIN m \ {k} |-> m[x]]

\* Iterator::max over the keys.
SetMax(S) == CHOOSE m \in S : \A x \in S : Le(x, m)

\* What a call returned: the Result, and for list_tasks the Vec.
Ret(op, ret) == [op |-> op, ret |-> ret, val |-> << >>]

(* ---------------------------- persistence ------------------------------ *)

\* #[serde(with = "ts_seconds")]: created_at is written as whole seconds.
SerTask(t) ==
    [id |-> t.id, title |-> t.title, description |-> t.description,
     completed |-> t.completed, created_at |-> t.created_at.secs,
     user_id |-> t.user_id]

\* ts_seconds::deserialize: a DateTime at that second, no sub-second part.
DeTask(j) ==
    [id |-> j.id, title |-> j.title, description |-> j.description,
     completed |-> j.completed,
     created_at |-> [secs |-> j.created_at, nanos |-> 0],
     user_id |-> j.user_id]

\* serde_json::to_string(&self.tasks): a JSON object, one member per entry.
SerTasks(m) == { [key |-> k, value |-> SerTask(m[k])] : k \in DOMAIN m }

\* serde_json::from_str::<HashMap<u32, Task>>.
DeTasks(es) ==
    [k \in {e.key : e \in es} |->
        DeTask((CHOOSE e \in es : e.key = k).value)]

SerUsers(m) == { [key |-> k, value |-> m[k]] : k \in DOMAIN m }

DeUsers(es) ==
    [k \in {e.key : e \in es} |-> (CHOOSE e \in es : e.key = k).value]

Absent == [state |-> "absent", entries |-> {}]
Corrupt == [state |-> "corrupt", entries |-> {}]
Present(es) == [state |-> "present", entries |-> es]

\* fs::write that cannot fail: the new contents always reach the file.
fs_write_AlwaysWrites(file, es, outcome) == Present(es)

\* fs::write(path, json) under the given outcome.
fs_write(file, es, outcome) ==
    CASE outcome = "ok" -> Present(es)
      [] outcome = "open_failed" -> file
      [] OTHER -> Corrupt

\* save_tasks that writes back what the file already held.
save_tasks_Stale(m, file, outcome) == fs_write(file, file.entries, outcome)

\* save_tasks / save_users: the file afterwards.
save_tasks(m, file, outcome) == fs_write(file, SerTasks(m), outcome)
save_users(m, file, outcome) == fs_write(file, SerUsers(m), outcome)

\* max + 1 on u32: panics with overflow checks, wraps without.
NextAfter(max, checks) ==
    IF max = U32Max
    THEN (IF checks THEN [status |-> Panicked, value |-> U32(0)]
                    ELSE [status |-> Ok, value |-> U32(0)])
    ELSE [status |-> Ok, value |-> Succ(max)]

\* load_tasks that takes an unparseable file for an empty collection.
load_tasks_IgnoresCorrupt(file, checks) ==
    CASE file.state \in {"absent", "corrupt"} ->
            [status |-> Ok, tasks |-> EmptyMap, next_task_id |-> U32(1)]
      [] OTHER ->
            LET m == DeTasks(file.entries)
                n == IF DOMAIN m = {} THEN [status |-> Ok, value |-> U32(1)]
                     ELSE NextAfter(SetMax(DOMAIN m), checks)
            IN  [status |-> n.status, tasks |-> m,
                 next_task_id |-> IF n.status = Ok THEN n.value ELSE U32(1)]

\* load_tasks on a freshly constructed TodoApp: how it ended, and the tasks
\* and counter it left (the counter stays 1 when max + 1 panics).
load_tasks(file, checks) ==
    CASE file.state = "absent" ->
            [status |-> Ok, tasks |-> EmptyMap, next_task_id |-> U32(1)]
      [] file.state = "corrupt" ->
            [status |-> ErrLoad, tasks |-> EmptyMap, next_task_id |-> U32(1)]
      [] OTHER ->
            LET m == DeTasks(file.entries)
                n == IF DOMAIN m = {} THEN [status |-> Ok, value |-> U32(1)]
                     ELSE NextAfter(SetMax(DOMAIN m), checks)
            IN  [status |-> n.status, tasks |-> m,
                 next_task_id |-> IF n.status = Ok THEN n.value ELSE U32(1)]

\* load_users on a freshly constructed TodoApp.
load_users(file) ==
    CASE file.state = "absent" -> [status |-> Ok, users |-> EmptyMap]
      [] file.state = "corrupt" -> [status |-> ErrLoad, users |-> EmptyMap]
      [] OTHER -> [status |-> Ok, users |-> DeUsers(file.entries)]

\* main, lines 205-207: TodoApp::new(), load_tasks()?, load_users()?.
Startup(tf, uf, checks) ==
    LET lt == load_tasks(tf, checks)
        lu == load_users(uf)
    IN  IF lt.status # Ok
        THEN [pc |-> lt.status, tasks |-> lt.tasks, users |-> EmptyMap,
              next_task_id |-> U32(1)]
        ELSE IF lu.status # Ok
        THEN [pc |-> lu.status, tasks |-> lt.tasks, users |-> EmptyMap,
              next_task_id |-> lt.next_task_id]
        ELSE [pc |-> "running", tasks |-> lt.tasks, users |-> lu.users,
              next_task_id |-> lt.next_task_id]

(* --------------------------- initial states --------------------------- *)

UserRec(u, p) == [username |-> u, password |-> p]

TaskRec(id, text, done, at, owner) ==
    [id |-> id, title |-> text[1], description |-> text[2],
     completed |-> done, created_at |-> at, user_id |-> owner]

BothUsers ==
    Insert(Insert(EmptyMap, "alice", UserRec("alice", "pw1")),
           "Alice", UserRec("Alice", "pw2"))

T0 == [secs |-> 100, nanos |-> 0]

\* A store whose counter has almost run through the u32 range.
NearMaxTasks ==
    Insert(EmptyMap, U32NearMax,
           TaskRec(U32NearMax, <<"Buy milk", "2%">>, FALSE, T0, "alice"))

\* A store holding the task with the largest id a u32 can hold.
AtMaxTasks ==
    Insert(EmptyMap, U32Max,
           TaskRec(U32Max, <<"Buy milk", "2%">>, FALSE, T0, "alice"))

\* A store with one task of each user.
TwoOwnerTasks ==
    Insert(Insert(EmptyMap, U32(1),
                  TaskRec(U32(1), <<"Walk dog", "">>, FALSE, T0, "Alice")),
           U32(2), TaskRec(U32(2), <<"Buy milk", "2%">>, FALSE, T0, "alice"))

\* A store with two tasks of one user.
SameOwnerTasks ==
    Insert(Insert(EmptyMap, U32(1),
                  TaskRec(U32(1), <<"Walk dog", "">>, FALSE, T0, "alice")),
           U32(2), TaskRec(U32(2), <<"Buy milk", "2%">>, FALSE, T0, "alice"))

\* The files a process may find when it starts.
InitialDisks ==
    { <<Absent, Absent>>,
      <<Present(SerTasks(TwoOwnerTasks)), Present(SerUsers(BothUsers))>>,
      <<Present(SerTasks(SameOwnerTasks)), Present(SerUsers(BothUsers))>>,
      <<Present(SerTasks(NearMaxTasks)), Present(SerUsers(BothUsers))>>,
      <<Present(SerTasks(AtMaxTasks)), Present(SerUsers(BothUsers))>>,
      <<Corrupt, Absent>>,
      <<Absent, Corrupt>> }

OwnersOf(file) ==
    [k \in {e.key : e \in file.entries} |->
        (CHOOSE e \in file.entries : e.key = k).value.user_id]

\* What a process that has created no task yet has loaded.
Loaded(m) ==
    [pending |-> TRUE,
     max |-> IF DOMAIN m = {} THEN None ELSE Some(SetMax(DOMAIN m))]

NotPending == [pending |-> FALSE, max |-> None]

Init ==
    \E d \in InitialDisks, checks \in BOOLEAN, seed \in Seeds :
        LET s == Startup(d[1], d[2], checks)
        IN  /\ tasks_file = d[1]
            /\ users_file = d[2]
            /\ overflow_checks = checks
            /\ pc = s.pc
            /\ tasks = s.tasks
            /\ users = s.users
            /\ next_task_id = s.next_task_id
            /\ current_user = None
            /\ last = Ret("start", s.pc)
            /\ issued = << >>
            /\ ever_assigned = {e.key : e \in d[1].entries}
            /\ loaded = Loaded(s.tasks)
            /\ creator = [mem |-> OwnersOf(Present(SerTasks(s.tasks))),
                          disk |-> OwnersOf(d[1])]
            /\ failures = 0
            /\ hash_seed = seed

(* ------------------------------ actions ------------------------------- *)

\* The task ids typed at the prompt: those of the tasks in the store, and
\* one no task has.
IdArgs == DOMAIN tasks \cup {U32(MaxId + 1)}

IdInScope(n) ==
    /\ Le(n, U32(MaxId)) \/ Le(U32NearMax, n)
    /\ Cardinality(DOMAIN tasks \cup {n}) <= MaxTasks

\* The record of who created the tasks now on disk, after a save.
DiskCreator(mem, outcome) ==
    CASE outcome = "ok" -> mem
      [] outcome = "open_failed" -> creator.disk
      [] OTHER -> EmptyMap

\* A write may fail only while the budget of failures lasts.
Allowed(outcome) == outcome = "ok" \/ failures < MaxFailures

Count(outcome) == IF outcome = "ok" THEN failures ELSE failures + 1

\* register without the contains_key test: a second registration overwrites.
register_Overwrite(username, password) ==
    /\ pc = "running"
    /\ \E outcome \in WriteOutcomes :
            /\ Allowed(outcome)
            /\ failures' = Count(outcome)
            /\ users' = Insert(users, username, UserRec(username, password))
            /\ users_file' = save_users(users', users_file, outcome)
            /\ last' = Ret("register",
                           IF outcome = "ok" THEN Ok ELSE ErrSaveUsers)
    /\ UNCHANGED <<tasks, current_user, next_task_id, tasks_file, pc,
                   overflow_checks, hash_seed, issued, ever_assigned, loaded,
                   creator>>

register(username, password) ==
    /\ pc = "running"
    /\ IF username \in DOMAIN users
       THEN /\ last' = Ret("register", ErrUsernameExists)
            /\ UNCHANGED <<users, users_file, failures>>
       ELSE \E outcome \in WriteOutcomes :
            /\ Allowed(outcome)
            /\ failures' = Count(outcome)
            /\ users' = Insert(users, username, UserRec(username, password))
            /\ users_file' = save_users(users', users_file, outcome)
            /\ last' = Ret("register",
                           IF outcome = "ok" THEN Ok ELSE ErrSaveUsers)
    /\ UNCHANGED <<tasks, current_user, next_task_id, tasks_file, pc,
                   overflow_checks, hash_seed, issued, ever_assigned, loaded,
                   creator>>

\* login without the password guard of the match arm.
login_AnyPassword(username, password) ==
    /\ pc = "running"
    /\ IF username \in DOMAIN users
       THEN /\ current_user' = Some(username)
            /\ last' = Ret("login", Ok)
       ELSE /\ last' = Ret("login", ErrInvalidCredentials)
            /\ UNCHANGED current_user
    /\ UNCHANGED <<tasks, users, next_task_id, tasks_file, users_file, pc,
                   overflow_checks, hash_seed, issued, ever_assigned, loaded,
                   creator, failures>>

\* login that drops the session when the credentials are wrong.
login_FailureClearsSession(username, password) ==
    /\ pc = "running"
    /\ IF username \in DOMAIN users /\ users[username].password = password
       THEN /\ current_user' = Some(username)
            /\ last' = Ret("login", Ok)
       ELSE /\ last' = Ret("login", ErrInvalidCredentials)
            /\ current_user' = None
    /\ UNCHANGED <<tasks, users, next_task_id, tasks_file, users_file, pc,
                   overflow_checks, hash_seed, issued, ever_assigned, loaded,
                   creator, failures>>

login(username, password) ==
    /\ pc = "running"
    /\ IF username \in DOMAIN users /\ users[username].password = password
       THEN /\ current_user' = Some(username)
            /\ last' = Ret("login", Ok)
       ELSE /\ last' = Ret("login", ErrInvalidCredentials)
            /\ UNCHANGED current_user
    /\ UNCHANGED <<tasks, users, next_task_id, tasks_file, users_file, pc,
                   overflow_checks, hash_seed, issued, ever_assigned, loaded,
                   creator, failures>>

\* logout that forgets to clear the session.
logout_KeepsSession ==
    /\ pc = "running"
    /\ last' = Ret("logout", Ok)
    /\ UNCHANGED <<tasks, users, current_user, next_task_id, tasks_file,
                   users_file, pc, overflow_checks, hash_seed, issued,
                   ever_assigned, loaded, creator, failures>>

logout ==
    /\ pc = "running"
    /\ current_user' = None
    /\ last' = Ret("logout", Ok)
    /\ UNCHANGED <<tasks, users, next_task_id, tasks_file, users_file, pc,
                   overflow_checks, hash_seed, issued, ever_assigned, loaded,
                   creator, failures>>

\* is_logged_in that always answers no: main shows the first menu only.
is_logged_in_Never == FALSE

is_logged_in == current_user # None

add_task(text, now) ==
    /\ pc = "running"
    /\ IF current_user = None
       THEN /\ last' = Ret("add_task", ErrNotLoggedIn)
            /\ UNCHANGED <<tasks, next_task_id, tasks_file, pc, issued,
                           ever_assigned, loaded, creator, failures>>
       ELSE LET user_id == current_user[1]
                task == TaskRec(next_task_id, text, FALSE, now, user_id)
                n == NextAfter(next_task_id, overflow_checks)
            IN  /\ IdInScope(next_task_id)
                /\ tasks' = Insert(tasks, next_task_id, task)
                /\ loaded' = NotPending
                /\ IF n.status = Panicked
                   THEN /\ pc' = Panicked
                        /\ last' = Ret("add_task", Panicked)
                        /\ creator' = [creator EXCEPT !.mem =
                                 Insert(creator.mem, next_task_id, user_id)]
                        /\ UNCHANGED <<next_task_id, tasks_file, issued,
                                       ever_assigned, failures>>
                   ELSE \E outcome \in WriteOutcomes :
                        /\ Allowed(outcome)
                        /\ failures' = Count(outcome)
                        /\ next_task_id' = n.value
                        /\ tasks_file' =
                               save_tasks(tasks', tasks_file, outcome)
                        /\ last' = Ret("add_task",
                               IF outcome = "ok" THEN Ok ELSE ErrSaveTasks)
                        /\ issued' = Append(issued,
                               [id |-> next_task_id, ok |-> outcome = "ok"])
                        /\ ever_assigned' = IF outcome = "ok"
                               THEN ever_assigned \cup {next_task_id}
                               ELSE ever_assigned
                        /\ LET mem == Insert(creator.mem, next_task_id,
                                             user_id)
                           IN creator' = [mem |-> mem,
                                          disk |-> DiskCreator(mem, outcome)]
                        /\ UNCHANGED pc
    /\ UNCHANGED <<users, current_user, users_file, overflow_checks,
                   hash_seed>>

\* The checks complete_task, edit_task and delete_task start with; denied is
\* the message for a task of another user.
\* The checks without the comparison of user_id.
Check_NoOwnerTest(task_id, denied) ==
    IF current_user = None THEN ErrNotLoggedIn
    ELSE IF task_id \notin DOMAIN tasks THEN ErrTaskNotFound
    ELSE Ok

\* The checks with the lookup of the task made before that of the session.
Check_ExistenceFirst(task_id, denied) ==
    IF task_id \notin DOMAIN tasks THEN ErrTaskNotFound
    ELSE IF current_user = None THEN ErrNotLoggedIn
    ELSE IF tasks[task_id].user_id # current_user[1] THEN denied
    ELSE Ok

Check(task_id, denied) ==
    IF current_user = None THEN ErrNotLoggedIn
    ELSE IF task_id \notin DOMAIN tasks THEN ErrTaskNotFound
    ELSE IF tasks[task_id].user_id # current_user[1] THEN denied
    ELSE Ok

\* The tail shared by the three: save_tasks and the Result.
SaveAndReturn(op) ==
    \E outcome \in WriteOutcomes :
    /\ Allowed(outcome)
    /\ failures' = Count(outcome)
    /\ tasks_file' = save_tasks(tasks', tasks_file, outcome)
    /\ last' = Ret(op, IF outcome = "ok" THEN Ok ELSE ErrSaveTasks)
    /\ creator' = [creator EXCEPT
                      !.disk = DiskCreator(creator.mem, outcome)]

Rejected(op, err) ==
    /\ last' = Ret(op, err)
    /\ UNCHANGED <<tasks, tasks_file, creator, failures>>

complete_task(task_id) ==
    /\ pc = "running"
    /\ LET c == Check(task_id, ErrNotAuthorizedModify)
       IN  IF c # Ok
           THEN Rejected("complete_task", c)
           ELSE /\ tasks' = [tasks EXCEPT ![task_id].completed = TRUE]
                /\ SaveAndReturn("complete_task")
    /\ UNCHANGED <<users, current_user, next_task_id, users_file, pc,
                   overflow_checks, hash_seed, issued, ever_assigned, loaded>>

\* edit_task that also writes the completed field back to its default.
edit_task_ResetsCompleted(task_id, text) ==
    /\ pc = "running"
    /\ LET c == Check(task_id, ErrNotAuthorizedModify)
       IN  IF c # Ok
           THEN Rejected("edit_task", c)
           ELSE /\ tasks' = [tasks EXCEPT ![task_id].title = text[1],
                                          ![task_id].description = text[2],
                                          ![task_id].completed = FALSE]
                /\ SaveAndReturn("edit_task")
    /\ UNCHANGED <<users, current_user, next_task_id, users_file, pc,
                   overflow_checks, hash_seed, issued, ever_assigned, loaded>>

edit_task(task_id, text) ==
    /\ pc = "running"
    /\ LET c == Check(task_id, ErrNotAuthorizedModify)
       IN  IF c # Ok
           THEN Rejected("edit_task", c)
           ELSE /\ tasks' = [tasks EXCEPT ![task_id].title = text[1],
                                          ![task_id].description = text[2]]
                /\ SaveAndReturn("edit_task")
    /\ UNCHANGED <<users, current_user, next_task_id, users_file, pc,
                   overflow_checks, hash_seed, issued, ever_assigned, loaded>>

\* delete_task that empties the task collection.
delete_task_ClearsAll(task_id) ==
    /\ pc = "running"
    /\ LET c == Check(task_id, ErrNotAuthorizedDelete)
       IN  IF c # Ok
           THEN Rejected("delete_task", c)
           ELSE \E outcome \in WriteOutcomes :
                /\ tasks' = EmptyMap
                /\ Allowed(outcome)
                /\ failures' = Count(outcome)
                /\ tasks_file' = save_tasks(tasks', tasks_file, outcome)
                /\ last' = Ret("delete_task",
                               IF outcome = "ok" THEN Ok ELSE ErrSaveTasks)
                /\ creator' = [mem |-> EmptyMap,
                               disk |-> DiskCreator(EmptyMap, outcome)]
    /\ UNCHANGED <<users, current_user, next_task_id, users_file, pc,
                   overflow_checks, hash_seed, issued, ever_assigned, loaded>>

delete_task(task_id) ==
    /\ pc = "running"
    /\ LET c == Check(task_id, ErrNotAuthorizedDelete)
       IN  IF c # Ok
           THEN Rejected("delete_task", c)
           ELSE \E outcome \in WriteOutcomes :
                /\ tasks' = Remove(tasks, task_id)
                /\ Allowed(outcome)
                /\ failures' = Count(outcome)
                /\ tasks_file' = save_tasks(tasks', tasks_file, outcome)
                /\ last' = Ret("delete_task",
                               IF outcome = "ok" THEN Ok ELSE ErrSaveTasks)
                /\ LET mem == Remove(creator.mem, task_id)
                   IN creator' = [mem |-> mem,
                                  disk |-> DiskCreator(mem, outcome)]
    /\ UNCHANGED <<users, current_user, next_task_id, users_file, pc,
                   overflow_checks, hash_seed, issued, ever_assigned, loaded>>

\* The tasks list_tasks keeps: those of the given user.
OwnTasks(user_id) ==
    {t \in {tasks[k] : k \in DOMAIN tasks} : t.user_id = user_id}

\* The orders HashMap::values may visit a set of tasks in.
Orders(S) ==
    {s \in [1 .. Cardinality(S) -> S] :
        \A i, j \in 1 .. Cardinality(S) : i # j => s[i] # s[j]}

\* HashMap::values().filter(..).collect(): the kept tasks in the order this
\* map is iterated in, which the hasher's keys fix: by the hash of the id,
\* here ascending ids under one key and descending ids under the other.
values(S, seed) ==
    CHOOSE s \in Orders(S) :
        \A i, j \in 1 .. Len(s) :
            i < j => IF seed = 0 THEN Le(s[i].id, s[j].id)
                                 ELSE Le(s[j].id, s[i].id)

list_tasks ==
    /\ pc = "running"
    /\ IF current_user = None
       THEN last' = Ret("list_tasks", ErrNotLoggedIn)
       ELSE last' = [op |-> "list_tasks", ret |-> Ok,
                     val |-> values(OwnTasks(current_user[1]), hash_seed)]
    /\ UNCHANGED <<tasks, users, current_user, next_task_id, tasks_file,
                   users_file, pc, overflow_checks, hash_seed, issued,
                   ever_assigned, loaded, creator, failures>>

restart ==
    \E seed \in Seeds :
    LET s == Startup(tasks_file, users_file, overflow_checks)
    IN  /\ hash_seed' = seed
        /\ pc' = s.pc
        /\ tasks' = s.tasks
        /\ users' = s.users
        /\ next_task_id' = s.next_task_id
        /\ current_user' = None
        /\ last' = Ret("start", s.pc)
        /\ issued' = << >>
        /\ loaded' = Loaded(s.tasks)
        /\ creator' = [creator EXCEPT !.mem =
                 [k \in DOMAIN s.tasks |-> creator.disk[k]]]
        /\ UNCHANGED <<tasks_file, users_file, overflow_checks,
                       ever_assigned, failures>>

Next ==
    \/ \E r \in Registrations : register(r[1], r[2])
    \/ \E u \in Usernames, p \in Passwords : login(u, p)
    \/ logout
    \/ \E x \in TaskTexts, t \in Times : add_task(x, t)
    \/ \E i \in IdArgs : complete_task(i)
    \/ \E i \in IdArgs, x \in TaskTexts : edit_task(i, x)
    \/ \E i \in IdArgs : delete_task(i)
    \/ list_tasks
    \/ restart

Spec == Init /\ [][Next]_vars

\* main, choice "3" of the first menu: break out of the loop and return.
exit ==
    /\ pc = "running"
    /\ pc' = "exited"
    /\ last' = Ret("exit", Ok)
    /\ UNCHANGED <<tasks, users, current_user, next_task_id, tasks_file,
                   users_file, overflow_checks, hash_seed, issued,
                   ever_assigned, loaded, creator, failures>>

\* The loop of main: each round shows one of two menus, chosen by
\* is_logged_in, and makes the call the choice stands for; after the process
\* has ended a new one may be started.
MenuNext ==
    \/ ~is_logged_in /\ \E u \in Usernames, p \in Passwords : login(u, p)
    \/ ~is_logged_in /\ \E r \in Registrations : register(r[1], r[2])
    \/ ~is_logged_in /\ exit
    \/ is_logged_in /\ \E x \in TaskTexts, t \in Times : add_task(x, t)
    \/ is_logged_in /\ list_tasks
    \/ is_logged_in /\ \E i \in IdArgs : complete_task(i)
    \/ is_logged_in /\ \E i \in IdArgs, x \in TaskTexts : edit_task(i, x)
    \/ is_logged_in /\ \E i \in IdArgs : delete_task(i)
    \/ is_logged_in /\ logout
    \/ restart

MenuSpec == Init /\ [][MenuNext]_vars

(* ------------------------------ claims -------------------------------- *)

NotAuthorized == {ErrNotAuthorizedModify, ErrNotAuthorizedDelete}

\* The id of the task the last creating add_task call created.
LastCreated(seq) == seq[Len(seq)].id

\* C1, first half: whatever list_tasks returns was created by the user now
\* logged in; no task created in another user's session is in the result.
C1_ListedAreOwn ==
    (last.op = "list_tasks" /\ last.ret = Ok) =>
        \A n \in 1 .. Len(last.val) :
            /\ last.val[n].id \in DOMAIN creator.mem
            /\ creator.mem[last.val[n].id] = current_user[1]

\* C1, second half: complete_task, edit_task and delete_task on the id of a
\* task created in another user's session fail as not authorized and leave
\* the task collection as it was.
C1_ForeignMutationDenied ==
    \A i \in IdArgs :
        (/\ current_user # None
         /\ i \in DOMAIN tasks
         /\ creator.mem[i] # current_user[1])
        => /\ complete_task(i) =>
                  (last'.ret = ErrNotAuthorizedModify /\ tasks' = tasks)
           /\ \A x \in TaskTexts : edit_task(i, x) =>
                  (last'.ret = ErrNotAuthorizedModify /\ tasks' = tasks)
           /\ delete_task(i) =>
                  (last'.ret = ErrNotAuthorizedDelete /\ tasks' = tasks)

\* C1: ownership isolation: a task created while the session was U1 is never
\* in the result of list_tasks while the session is U2 # U1, and U2's
\* complete_task, edit_task and delete_task on its id fail with the
\* not-authorized error and leave the task present and unchanged.
C1_OwnershipIsolation ==
    []C1_ListedAreOwn /\ [][C1_ForeignMutationDenied]_vars

\* A user's attempt on a task of another user was just refused.
C1_Witness ==
    /\ last.ret \in NotAuthorized
    /\ current_user # None
    /\ \E k \in DOMAIN tasks : creator.mem[k] # current_user[1]
    /\ \E k \in DOMAIN tasks : creator.mem[k] = current_user[1]

\* What one of the three calls on task id i must return, by the claim's order.
C2_Ordered(i, ret) ==
    /\ current_user = None => ret = ErrNotLoggedIn
    /\ (current_user # None /\ i \notin DOMAIN tasks) => ret = ErrTaskNotFound
    /\ (/\ current_user # None
        /\ i \in DOMAIN tasks
        /\ tasks[i].user_id # current_user[1]) => ret \in NotAuthorized
    /\ ret \in {Ok, ErrSaveTasks} =>
           (/\ current_user # None
            /\ i \in DOMAIN tasks
            /\ tasks[i].user_id = current_user[1])
    /\ ret \in {ErrNotLoggedIn, ErrTaskNotFound, Ok, ErrSaveTasks}
               \cup NotAuthorized

\* C2: complete_task, edit_task and delete_task decide their error in a fixed
\* order: no session gives NotLoggedIn whatever the id; a session and no such
\* task gives TaskNotFound; a session and a task of another user gives
\* NotAuthorized; only otherwise does the call get as far as succeeding.
C2_ErrorOrder ==
    [][\A i \in IdArgs :
          /\ complete_task(i) => C2_Ordered(i, last'.ret)
          /\ \A x \in TaskTexts : edit_task(i, x) => C2_Ordered(i, last'.ret)
          /\ delete_task(i) => C2_Ordered(i, last'.ret)]_vars

\* A logged-in user's delete_task of an id no task has was just refused,
\* while the store holds tasks.
C2_Witness ==
    /\ last.op = "delete_task"
    /\ last.ret = ErrTaskNotFound
    /\ current_user # None
    /\ DOMAIN tasks # {}

\* C3: within one process, the ids given to tasks by successive successful
\* add_task calls are pairwise distinct and strictly increasing.
C3_IdsStrictlyIncreasing ==
    \A m, n \in 1 .. Len(issued) :
        (m < n /\ issued[m].ok /\ issued[n].ok) =>
            Lt(issued[m].id, issued[n].id)

\* C4: no id ever assigned to a task is assigned again to a later task,
\* restarts included.
C4_IdsNeverReused ==
    [][\A x \in TaskTexts, t \in Times :
          (add_task(x, t) /\ last'.ret = Ok) =>
              LastCreated(issued') \notin ever_assigned]_vars

\* C5: after a start that loaded tasks with largest id k, the next successful
\* add_task creates the task with id k + 1 (no u32 is u32::MAX + 1); after a
\* start that loaded no task it creates id 1.
C5_ReloadIdContinuity ==
    [][\A x \in TaskTexts, t \in Times :
          (add_task(x, t) /\ last'.ret = Ok /\ loaded.pending) =>
              IF loaded.max = None
              THEN LastCreated(issued') = U32(1)
              ELSE /\ loaded.max[1] # U32Max
                   /\ LastCreated(issued') = Succ(loaded.max[1])]_vars

\* C6: add_task without a session fails with NotLoggedIn; with a session it
\* inserts exactly one new task, with the counter's old value as id,
\* completed false and the session's user as user_id, adds exactly 1 to
\* next_task_id, and (when the write succeeds) leaves the full collection in
\* the task file.
C6_AddTaskEffect ==
    [][\A x \in TaskTexts, t \in Times :
          add_task(x, t) =>
              IF current_user = None
              THEN /\ last'.ret = ErrNotLoggedIn
                   /\ tasks' = tasks
                   /\ next_task_id' = next_task_id
              ELSE /\ next_task_id \notin DOMAIN tasks
                   /\ DOMAIN tasks' = DOMAIN tasks \cup {next_task_id}
                   /\ \A k \in DOMAIN tasks : tasks'[k] = tasks[k]
                   /\ tasks'[next_task_id].id = next_task_id
                   /\ tasks'[next_task_id].completed = FALSE
                   /\ tasks'[next_task_id].user_id = current_user[1]
                   /\ next_task_id # U32Max
                   /\ next_task_id' = Succ(next_task_id)
                   /\ last'.ret \in {Ok, ErrSaveTasks}
                   /\ last'.ret = Ok =>
                          tasks_file' = Present(SerTasks(tasks'))]_vars

\* C7: a successful add_task returns the id of the task it just created
\* (last.val is what the call handed back: add_task hands back nothing).
C7_AddReturnsId ==
    (last.op = "add_task" /\ last.ret = Ok) =>
        last.val = <<LastCreated(issued)>>

\* C8: login(u, p) succeeds exactly when u is registered with password p; on
\* success the session becomes u, otherwise the error is InvalidCredentials;
\* either way users, tasks and both files are unchanged.
C8_Login ==
    [][\A u \in Usernames, p \in Passwords :
          login(u, p) =>
              /\ (last'.ret = Ok) <=>
                     (u \in DOMAIN users /\ users[u].password = p)
              /\ last'.ret = Ok => current_user' = Some(u)
              /\ last'.ret # Ok => last'.ret = ErrInvalidCredentials
              /\ UNCHANGED <<users, tasks, users_file, tasks_file>>]_vars

\* A login has just succeeded while the other registered user has another
\* password.
C8_Witness ==
    /\ last.op = "login"
    /\ last.ret = Ok
    /\ current_user # None
    /\ users[current_user[1]].password = "pw1"
    /\ \E u \in DOMAIN users : users[u].password # "pw1"

\* C9: usernames are unique and user records permanent within a process:
\* register of a registered name (exact match) fails with DuplicateUsername,
\* register of a new name stores the given password, every record is keyed
\* by its own username, and no call removes or changes a record.
C9_UsersUniquePermanent ==
    [][/\ \A r \in Registrations :
              register(r[1], r[2]) =>
                  IF r[1] \in DOMAIN users
                  THEN last'.ret = ErrUsernameExists
                  ELSE /\ last'.ret \in {Ok, ErrSaveUsers}
                       /\ r[1] \in DOMAIN users'
                       /\ users'[r[1]].password = r[2]
       /\ \A u \in DOMAIN users' : users'[u].username = u
       /\ last'.op # "start" =>
              \A u \in DOMAIN users :
                  u \in DOMAIN users' /\ users'[u] = users[u]]_vars

\* A registration of a taken name was just refused, and the two names that
\* differ only in case are both registered, each with its own password.
C9_Witness ==
    /\ last.op = "register"
    /\ last.ret = ErrUsernameExists
    /\ DOMAIN users = {"alice", "Alice"}
    /\ users["alice"].password = "pw1"
    /\ users["Alice"].password = "pw2"

\* C10: logout never fails and always leaves the session empty; when the
\* session was already empty nothing else changes, so a second logout gives
\* the state the first one gave.
C10_LogoutIdempotent ==
    [][logout =>
          /\ last'.ret = Ok
          /\ current_user' = None
          /\ current_user = None =>
                 UNCHANGED <<tasks, users, current_user, next_task_id,
                             tasks_file, users_file, pc>>
          /\ (current_user = None /\ last.op = "logout") => UNCHANGED vars
      ]_vars

\* A logout has just returned, with users and tasks in the store.
C10_Witness ==
    /\ last.op = "logout"
    /\ last.ret = Ok
    /\ current_user = None
    /\ DOMAIN users # {}
    /\ DOMAIN tasks # {}

\* Task k is completed in memory, and the task file does not say otherwise:
\* what a successful complete_task(k) leaves.
C11_Completed(k, m, file) ==
    /\ k \in DOMAIN m
    /\ m[k].completed
    /\ file.state = "present" =>
           \A e \in file.entries : e.key = k => e.value.completed

\* C11: completion is one-way: add_task creates a task with completed false;
\* a successful complete_task leaves the task completed in memory and in the
\* file; and from then on no edit_task, complete_task, login, logout,
\* register, list_tasks or restart makes the flag false again while the task
\* exists.
C11_CompletionOneWay ==
    [][/\ \A x \in TaskTexts, t \in Times :
              (current_user # None /\ add_task(x, t)) =>
                  tasks'[next_task_id].completed = FALSE
       /\ \A i \in IdArgs :
              (last'.ret = Ok /\ complete_task(i)) =>
                  C11_Completed(i, tasks', tasks_file')
       /\ last'.op \notin {"add_task", "delete_task"} =>
              \A k \in DOMAIN tasks \cap DOMAIN tasks' :
                  C11_Completed(k, tasks, tasks_file) =>
                      C11_Completed(k, tasks', tasks_file')]_vars

\* A process has just started and loaded a completed task that was given
\* another title after it was created.
C11_Witness ==
    /\ last.op = "start"
    /\ pc = "running"
    /\ U32(2) \in DOMAIN tasks
    /\ tasks[U32(2)].completed
    /\ tasks[U32(2)].title = "Walk dog"
    /\ tasks[U32(2)].created_at = T0

\* A task collection with every created_at cut to the whole second.
C12_ToSecond(m) ==
    [k \in DOMAIN m |-> [m[k] EXCEPT !.created_at.nanos = 0]]

\* C12: memory is mirrored to disk after every successful mutation: when
\* register returns Ok the user file is the serialisation of the whole
\* in-memory user collection, and when add_task, complete_task, edit_task or
\* delete_task returns Ok the task file is the serialisation of the whole
\* in-memory task collection (reading it back gives the same tasks, with
\* created_at to the second), also when an earlier save had failed.
C12_MemoryMirrored ==
    [][/\ (last'.op = "register" /\ last'.ret = Ok) =>
              /\ users_file' = Present(SerUsers(users'))
              /\ DeUsers(users_file'.entries) = users'
       /\ (/\ last'.op \in {"add_task", "complete_task", "edit_task",
                             "delete_task"}
           /\ last'.ret = Ok) =>
              /\ tasks_file' = Present(SerTasks(tasks'))
              /\ DeTasks(tasks_file'.entries) = C12_ToSecond(tasks')]_vars

\* An edit_task has just returned Ok after an earlier write had failed; the
\* task file holds the collection, whose task was created in this process.
C12_Witness ==
    /\ last.op = "edit_task"
    /\ last.ret = Ok
    /\ failures = 1
    /\ \E k \in DOMAIN tasks : tasks[k].created_at.nanos # 0
    /\ tasks_file = Present(SerTasks(tasks))

SaveFailed == {ErrSaveTasks, ErrSaveUsers}

\* counter + 1 as add_task computes it when it gets as far as saving.
C13_Advanced(n) == IF n = U32Max THEN U32(0) ELSE Succ(n)

\* The in-memory change a mutating call that failed on its save has made and
\* kept.
C13_ChangeKept ==
    /\ \A r \in Registrations :
           (register(r[1], r[2]) /\ last'.ret \in SaveFailed) =>
               /\ last'.ret = ErrSaveUsers
               /\ r[1] \notin DOMAIN users
               /\ users' = Insert(users, r[1], UserRec(r[1], r[2]))
    /\ \A x \in TaskTexts, t \in Times :
           (add_task(x, t) /\ last'.ret \in SaveFailed) =>
               /\ last'.ret = ErrSaveTasks
               /\ tasks' = Insert(tasks, next_task_id,
                      TaskRec(next_task_id, x, FALSE, t, current_user[1]))
               /\ next_task_id' = C13_Advanced(next_task_id)
    /\ \A i \in IdArgs :
           /\ (complete_task(i) /\ last'.ret \in SaveFailed) =>
                  /\ last'.ret = ErrSaveTasks
                  /\ tasks' = [tasks EXCEPT ![i].completed = TRUE]
           /\ \A x \in TaskTexts :
                  (edit_task(i, x) /\ last'.ret \in SaveFailed) =>
                      /\ last'.ret = ErrSaveTasks
                      /\ tasks' = [tasks EXCEPT ![i].title = x[1],
                                                ![i].description = x[2]]
           /\ (delete_task(i) /\ last'.ret \in SaveFailed) =>
                  /\ last'.ret = ErrSaveTasks
                  /\ i \in DOMAIN tasks
                  /\ tasks' = Remove(tasks, i)

\* C13 as claimed: when the save step of register, add_task, complete_task,
\* edit_task or delete_task fails, the call returns a failure, the change it
\* made in memory is kept, and the file keeps its previous contents.
C13_FileKeepsContents ==
    [][last'.ret \in SaveFailed =>
          /\ C13_ChangeKept
          /\ tasks_file' = tasks_file
          /\ users_file' = users_file]_vars

\* C13 as the code has it: when the save step fails, the call returns the
\* save failure and the change it made in memory is kept; the file is not
\* brought up to date: it keeps its previous contents when it could not be
\* opened, and is left truncated and unparseable when the write failed after
\* it was opened; so the file differs from memory whenever the file mirrored
\* the collection before the call and the call changed what the collection
\* is written as.
C13_SaveFailure ==
    [][last'.ret \in SaveFailed =>
          /\ C13_ChangeKept
          /\ IF last'.ret = ErrSaveUsers
             THEN /\ users_file' \in {users_file, Corrupt}
                  /\ users_file' # Present(SerUsers(users'))
                  /\ tasks_file' = tasks_file
             ELSE /\ tasks_file' \in {tasks_file, Corrupt}
                  /\ users_file' = users_file
                  /\ (/\ SerTasks(tasks') # SerTasks(tasks)
                      /\ tasks_file = Present(SerTasks(tasks))) =>
                         tasks_file' # Present(SerTasks(tasks'))]_vars

\* A complete_task has just failed on its save: the task is completed in
\* memory, and the task file, which held the task, is left unparseable.
C13_Witness ==
    /\ last.op = "complete_task"
    /\ last.ret = ErrSaveTasks
    /\ \E k \in DOMAIN tasks : tasks[k].completed
    /\ tasks_file = Corrupt

\* C14: in every state of a running process, after save failures and after
\* restarts too, the user_id of every task in memory is the username of a
\* user in the user collection.
C14_OwnersAreUsers ==
    pc = "running" =>
        \A k \in DOMAIN tasks : tasks[k].user_id \in DOMAIN users

\* What a process that has just started holds, against the two files.
C15_Loaded ==
    last.op = "start" =>
        \* an unparseable file aborts the start with the load error
        /\ (tasks_file = Corrupt \/ users_file = Corrupt) => pc = ErrLoad
        \* and nothing else does: an absent file is no error
        /\ pc = ErrLoad => (tasks_file = Corrupt \/ users_file = Corrupt)
        /\ tasks_file = Absent => tasks = EmptyMap
        /\ users_file = Absent => users = EmptyMap
        /\ (tasks_file = Absent /\ users_file = Absent) => pc = "running"
        \* a process that runs holds what the files hold
        /\ pc = "running" =>
               /\ tasks_file.state = "present" =>
                      tasks = DeTasks(tasks_file.entries)
               /\ users_file.state = "present" =>
                      users = DeUsers(users_file.entries)

\* C15: startup load outcome: an absent file gives an empty collection and
\* the start goes on; an unparseable file aborts the start with an error, and
\* a process that did not come up accepts no operation (only a new start
\* follows); a running process never holds an empty or partial collection
\* in place of that of an unparseable file.
C15_StartupLoad ==
    []C15_Loaded /\ [][pc # "running" => last'.op = "start"]_vars

\* A start has just been aborted by a task file that an earlier failed write
\* left unparseable, next to a user file that holds users.
C15_Witness ==
    /\ last.op = "start"
    /\ pc = ErrLoad
    /\ tasks_file = Corrupt
    /\ users_file.state = "present"
    /\ users_file.entries # {}
    /\ tasks = EmptyMap
    /\ failures = 1

\* C16: list_tasks fails with NotLoggedIn without a session; with one, its
\* result holds the tasks whose user_id is the session's user, each once and
\* no other, in an order that the tasks and the session alone decide: a store
\* with the same tasks and session in a process whose map was built with
\* other hasher keys (the same store after a restart) gives the same order.
C16_ListDeterministic ==
    [][list_tasks =>
          IF current_user = None
          THEN last'.ret = ErrNotLoggedIn
          ELSE LET own == OwnTasks(current_user[1])
               IN  /\ last'.ret = Ok
                   /\ Len(last'.val) = Cardinality(own)
                   /\ {last'.val[n] : n \in 1 .. Len(last'.val)} = own
                   /\ \A seed \in Seeds :
                          values(own, seed) = last'.val]_vars

\* What the three task mutations leave alone: every task but the target,
\* the users, the session and the counter.
C17_Others(i) ==
    /\ \A k \in DOMAIN tasks \ {i} :
           k \in DOMAIN tasks' /\ tasks'[k] = tasks[k]
    /\ DOMAIN tasks' \subseteq DOMAIN tasks
    /\ UNCHANGED <<users, current_user, next_task_id, users_file>>

\* The fields of the target no mutation writes.
C17_Identity(i) ==
    /\ i \in DOMAIN tasks'
    /\ tasks'[i].id = tasks[i].id
    /\ tasks'[i].created_at = tasks[i].created_at
    /\ tasks'[i].user_id = tasks[i].user_id

\* C17: frame of the task mutations: a successful edit_task changes only
\* the title and description of the target, a successful complete_task only
\* its completed flag, and a successful delete_task removes only the target;
\* all other tasks, the target's id, created_at and user_id, the users, the
\* session and next_task_id are unchanged.
C17_Frame ==
    [][\A i \in IdArgs :
          /\ \A x \in TaskTexts :
                 (last'.ret = Ok /\ edit_task(i, x)) =>
                     /\ C17_Others(i)
                     /\ C17_Identity(i)
                     /\ tasks'[i].title = x[1]
                     /\ tasks'[i].description = x[2]
                     /\ tasks'[i].completed = tasks[i].completed
          /\ (last'.ret = Ok /\ complete_task(i)) =>
                 /\ C17_Others(i)
                 /\ C17_Identity(i)
                 /\ tasks'[i].completed
                 /\ tasks'[i].title = tasks[i].title
                 /\ tasks'[i].description = tasks[i].description
          /\ (last'.ret = Ok /\ delete_task(i)) =>
                 /\ C17_Others(i)
                 /\ i \in DOMAIN tasks
                 /\ i \notin DOMAIN tasks']_vars

\* A delete_task has just succeeded and the other user's task is still in
\* the store.
C17_Witness ==
    /\ last.op = "delete_task"
    /\ last.ret = Ok
    /\ current_user # None
    /\ \E k \in DOMAIN tasks : tasks[k].user_id # current_user[1]

\* The errors of validation: DuplicateUsername, InvalidCredentials,
\* NotLoggedIn, TaskNotFound and NotAuthorized.
ValidationErrors ==
    {ErrUsernameExists, ErrInvalidCredentials, ErrNotLoggedIn,
     ErrTaskNotFound} \cup NotAuthorized

\* C18: a call rejected by validation changes nothing: users, tasks, the
\* session, next_task_id and both files are as before the call, and no write
\* to a file was tried (none succeeded, as a file that lagged behind memory
\* still does, and none failed); a failed login keeps an active session.
C18_RejectedChangesNothing ==
    [][last'.ret \in ValidationErrors =>
          /\ UNCHANGED <<users, tasks, current_user, next_task_id,
                         tasks_file, users_file>>
          /\ failures' = failures]_vars

\* A login with a wrong password has just been refused while a session is
\* active and the task file lags behind the tasks in memory.
C18_Witness ==
    /\ last.op = "login"
    /\ last.ret = ErrInvalidCredentials
    /\ current_user # None
    /\ DOMAIN tasks # {}
    /\ tasks_file.state = "present"
    /\ tasks_file # Present(SerTasks(tasks))

\* C19: in every state of a running process next_task_id is at least 1 and
\* greater than the id of every task in memory.
C19_CounterAboveIds ==
    pc = "running" =>
        /\ Le(U32(1), next_task_id)
        /\ \A k \in DOMAIN tasks : Lt(k, next_task_id)

LoggedOutCalls == {"login", "register", "exit"}

LoggedInCalls ==
    {"add_task", "list_tasks", "complete_task", "edit_task", "delete_task",
     "logout"}

\* C20, on the states of the loop: no call has returned NotLoggedIn, and the
\* session's user is a registered username.
C20_Session ==
    /\ last.ret # ErrNotLoggedIn
    /\ current_user # None => current_user[1] \in DOMAIN users

\* C20, on the steps of the loop: login and register are called only without
\* a session, the task calls and logout only with one, and a session is never
\* followed directly by the session of another user.
C20_Gated ==
    /\ last'.op \in LoggedOutCalls => current_user = None
    /\ last'.op \in LoggedInCalls => current_user # None
    /\ (current_user # None /\ current_user' # None) =>
           current_user' = current_user

\* C20: menu gating in the loop of main: login and register are called only
\* while no session is active, and add, list, complete, edit, delete and
\* logout only while one is; so no run of the loop gives a NotLoggedIn
\* error, a session passes to another user only after a logout, and the
\* session's user is always registered.
C20_MenuGating ==
    []C20_Session /\ [][C20_Gated]_vars

\* Alice has just logged in, in a process in which alice, logged in before
\* her, created a task.
C20_Witness ==
    /\ last.op = "login"
    /\ last.ret = Ok
    /\ current_user = Some("Alice")
    /\ \E k \in DOMAIN tasks :
           /\ tasks[k].user_id = "alice"
           /\ tasks[k].created_at.nanos # 0

====
